---- MODULE Spec2Model ----
(***************************************************************************)
(* Three notebooks of the repository.                                      *)
(*                                                                         *)
(* The parametric g-formula notebook (Chapter 13, src/unnamed/part_000,    *)
(* second notebook): data preparation, the primary fit and standardization,*)
(* the bootstrap loop and the Wald interval (Spec, FairSpec, SpecCalls).   *)
(* The simulation notebook (src/unnamed/part_000, first notebook): the     *)
(* seeded cells, the cell with normal outcomes and simulate_data (SpecSim).*)
(* The data management notebook (src/2_Data-Basics/1_data_management.ipynb)*)
(* from pd.read_sas on: selections, recodes, crosstabs, fillna (SpecDM).   *)
(*                                                                         *)
(* Numbers are exact rationals [n, d] (floating point rounding is not      *)
(* modelled).  A missing cell (np.nan) is the cell [nan |-> TRUE, v |-> 0].*)
(* The nhefs columns are represented by the treatment qsmk, the covariate  *)
(* sex, the weight wt82 and the outcome wt82_71; the outcome model         *)
(* 'qsmk + sex + ...' is represented by  wt82_71 ~ 1 + qsmk + sex.         *)
(* The names df and pc are the table and the position of whichever         *)
(* notebook a specification runs; numpy's global generator random_state is *)
(* shared by the g-formula and the simulation notebook.                    *)
(***************************************************************************)
EXTENDS Integers, Sequences, FiniteSets, TLC

VARIABLES csv, df, tfgf, rall, nall, ests, i, dfs, rall_b, nall_b,
          se, lcl, ucl, out, fits, calls, pc,
          random_state, runs, sas, printed

vars == <<csv, df, tfgf, rall, nall, ests, i, dfs, rall_b, nall_b,
          se, lcl, ucl, out, fits, calls, pc,
          random_state, runs, sas, printed>>

\* the names only the g-formula notebook binds
gformula == <<csv, tfgf, rall, nall, ests, i, dfs, rall_b, nall_b,
              se, lcl, ucl, out, fits, calls>>

(* ------------------------------ bounds --------------------------------- *)

\* number of bootstrap iterations; stands for range(200) of the source
B == 2

\* number of records of Data/nhefs.csv
NRows == 3

\* number of standardization calls made on one estimator in SpecCalls
MaxCalls == 3

(* --------------------------- exact rationals --------------------------- *)

\* Each operation is a function applied to the tuple of its operands, so that
\* an operand is evaluated once however often the operation reads it.

Abs(x) == IF x < 0 THEN 0 - x ELSE x

\* the greatest common divisor of two naturals (Euclid)
gcd[p \in Nat \X Nat] == IF p[2] = 0 THEN p[1] ELSE gcd[<<p[2], p[1] % p[2]>>]

GCD(a, b) == gcd[<<a, b>>]

\* p[1]/p[2] divided through by p[3], with the sign carried by the numerator
Reduce[p \in Int \X Int \X Int] ==
    IF p[2] < 0
    THEN [n |-> (0 - p[1]) \div p[3], d |-> (0 - p[2]) \div p[3]]
    ELSE [n |-> p[1] \div p[3], d |-> p[2] \div p[3]]

Norm[p \in Int \X Int] == Reduce[<<p[1], p[2], GCD(Abs(p[1]), Abs(p[2]))>>]

\* the rational n/d in lowest terms with a positive denominator (d # 0)
Q(n, d) == Norm[<<n, d>>]

Rat == [n : Int, d : Int]

Add[p \in Rat \X Rat] == Q(p[1].n * p[2].d + p[2].n * p[1].d, p[1].d * p[2].d)
Sub[p \in Rat \X Rat] == Q(p[1].n * p[2].d - p[2].n * p[1].d, p[1].d * p[2].d)
Mul[p \in Rat \X Rat] == Q(p[1].n * p[2].n, p[1].d * p[2].d)
Div[p \in Rat \X Rat] == Q(p[1].n * p[2].d, p[1].d * p[2].n)
Le[p \in Rat \X Rat] == p[1].n * p[2].d <= p[2].n * p[1].d

QInt(k) == [n |-> k, d |-> 1]
QAdd(a, b) == Add[<<a, b>>]
QSub(a, b) == Sub[<<a, b>>]
QMul(a, b) == Mul[<<a, b>>]
QDiv(a, b) == Div[<<a, b>>]
QLe(a, b) == Le[<<a, b>>]
QNeg(a) == QSub(QInt(0), a)

\* the value of a name that is not bound yet / of a field that is None
None == [n |-> 0, d |-> 0]

\* the sum of a sequence of numbers
QSum(s) ==
    LET S[k \in 0..Len(s)] == IF k = 0 THEN QInt(0) ELSE QAdd(S[k - 1], s[k])
    IN  S[Len(s)]

\* np.mean of a non-empty sequence of numbers
Mean(s) == QDiv(QSum(s), QInt(Len(s)))

(* ------------------------------- cells --------------------------------- *)

NaN == [nan |-> TRUE, v |-> 0]
Cell(x) == [nan |-> FALSE, v |-> x]
isnull(c) == c.nan

(* ------------------------ tabular collaborator ------------------------- *)

Fields == {"qsmk", "sex", "wt82", "wt82_71"}

\* pd.read_csv: the records of the file in file order under a RangeIndex 0..n-1
read_csv(file) ==
    [k \in 1..Len(file) |->
        [idx |-> k - 1, qsmk |-> file[k].qsmk, sex |-> file[k].sex,
         wt82 |-> file[k].wt82, wt82_71 |-> file[k].wt82_71]]

\* the columns of the dropna subset that the model carries
\* (sex, age, race, wt82, ht, school, alcoholpy, smokeintensity in the source)
DropSubset == {"sex", "wt82"}

\* faulty variant of dropna: no row is dropped
dropna_keep_all(t, subset) == t

\* faulty variant of dropna: a row is dropped only when all the cells of the
\* subset are missing (how='all')
dropna_how_all(t, subset) == SelectSeq(t, LAMBDA r : \E f \in subset : ~isnull(r[f]))

\* DataFrame.dropna(subset=...): the rows with no missing cell in the subset,
\* in their order and with their index labels
dropna(t, subset) == SelectSeq(t, LAMBDA r : \A f \in subset : ~isnull(r[f]))

\* numpy's global generator (np.random): the seed it was started from and the
\* number of raw values drawn from it since.  The stream of a seed is a fixed
\* sequence of raw values in 0..15; the Mersenne Twister itself is not
\* modelled
seed(s) == [seed |-> s % 64, pos |-> 0]

\* the seeds an unseeded generator may have been started from (numpy seeds
\* it from the operating system's entropy when it is first imported)
Entropy == 0..63

\* the k-th raw value the generator g draws next
raw(g, k) ==
    LET s == g.seed
        p == g.pos + k
    IN  ((s + 1) * (2 * p + 1) + (s \div 8) * p * p) % 16

\* the generator after k raw values were drawn from it
advance(g, k) == [g EXCEPT !.pos = @ + k]

\* random_state.choice(a, size=size, replace=True): size positions of 1..a,
\* one raw value each
choice(g, a, size) == [k \in 1..size |-> ((raw(g, k) * a) \div 16) + 1]

\* the draws df.sample(n=n, replace=True) can make: n positions of t, each
\* chosen independently among all the positions of t
Draws(t, n) == [1..n -> 1..Len(t)]

\* faulty variant of sample: one row short of n
sample_short(t, n, pick) == [k \in 1..(n - 1) |-> t[pick[k]]]

\* faulty variant of sample: the weight columns are drawn apart from the
\* rest of the row (columns resampled independently)
sample_columns(t, n, pick) ==
    [k \in 1..n |->
        [t[pick[k]] EXCEPT !.wt82    = t[pick[n + 1 - k]].wt82,
                           !.wt82_71 = t[pick[n + 1 - k]].wt82_71]]

\* DataFrame.sample(n=n, replace=True) for the draw pick: whole rows of t
sample(t, n, pick) == [k \in 1..n |-> t[pick[k]]]

\* df.shape[0]
shape0(t) == Len(t)

(* ----------------------- model-fitting collaborator -------------------- *)

\* the fields of the formula  wt82_71 ~ qsmk + sex
FormulaFields == {"qsmk", "sex", "wt82_71"}

\* the formula interface drops the rows with a missing value in a formula field
CompleteCases(t) == SelectSeq(t, LAMBDA r : \A f \in FormulaFields : ~isnull(r[f]))

\* the design row (Intercept, qsmk, sex) of a record
DesignRow(r) == <<1, r.qsmk.v, r.sex.v>>

\* the sum of a sequence of integers
SumInt(s) ==
    LET S[k \in 0..Len(s)] == IF k = 0 THEN 0 ELSE S[k - 1] + s[k]
    IN  S[Len(s)]

Dot(u, w) == u[1] * w[1] + u[2] * w[2] + u[3] * w[3]

Det3(M) ==
      M[1][1] * (M[2][2] * M[3][3] - M[2][3] * M[3][2])
    - M[1][2] * (M[2][1] * M[3][3] - M[2][3] * M[3][1])
    + M[1][3] * (M[2][1] * M[3][2] - M[2][2] * M[3][1])

\* the distinct design rows of a table
DesignCells(t) == {DesignRow(t[k]) : k \in 1..Len(t)}

\* the mean outcome of the rows of t whose design row is u
CellMean(t, u) ==
    LET own == SelectSeq(t, LAMBDA r : DesignRow(r) = u)
    IN  Q(SumInt([k \in 1..Len(own) |-> own[k].wt82_71.v]), Len(own))

\* least squares on a design of full column rank: the normal equations
\* (X'X) b = X'y solved by Cramer's rule
SolveFullRank(t) ==
    LET X   == [m \in 1..Len(t) |-> DesignRow(t[m])]
        y   == [m \in 1..Len(t) |-> t[m].wt82_71.v]
        XtX == [j \in 1..3 |-> [k \in 1..3 |->
                   SumInt([m \in 1..Len(t) |-> X[m][j] * X[m][k]])]]
        Xty == [j \in 1..3 |-> SumInt([m \in 1..Len(t) |-> X[m][j] * y[m]])]
        D   == Det3(XtX)
        Rep(c) == [j \in 1..3 |-> [k \in 1..3 |->
                   IF k = c THEN Xty[j] ELSE XtX[j][k]]]
    IN  [c \in 1..3 |-> Q(Det3(Rep(c)), D)]

\* least squares on a rank-deficient design (at most two distinct design
\* rows): the minimum-norm solution, which interpolates the cell means
SolveMinNorm(t) ==
    LET cells == DesignCells(t)
        u == CHOOSE x \in cells : TRUE
    IN  IF Cardinality(cells) = 1
        THEN [c \in 1..3 |-> QMul(CellMean(t, u), Q(u[c], Dot(u, u)))]
        ELSE LET w  == CHOOSE x \in cells : x # u
                 mu == CellMean(t, u)
                 mw == CellMean(t, w)
                 dG == Dot(u, u) * Dot(w, w) - Dot(u, w) * Dot(u, w)
                 al == QDiv(QSub(QMul(mu, QInt(Dot(w, w))), QMul(mw, QInt(Dot(u, w)))),
                            QInt(dG))
                 be == QDiv(QSub(QMul(mw, QInt(Dot(u, u))), QMul(mu, QInt(Dot(u, w)))),
                            QInt(dG))
             IN  [c \in 1..3 |-> QAdd(QMul(al, QInt(u[c])), QMul(be, QInt(w[c])))]

\* the coefficient vector (Intercept, qsmk, sex) of the Gaussian GLM fitted to
\* the complete cases of t; <<>> when there is no complete case to fit
Fit(t) ==
    LET cc == CompleteCases(t)
    IN  IF cc = <<>> THEN <<>>
        ELSE IF Cardinality(DesignCells(cc)) >= 3 THEN SolveFullRank(cc)
        ELSE SolveMinNorm(cc)

\* the prediction of the fitted model for one record
predict(b, r) ==
    QAdd(b[1], QAdd(QMul(b[2], QInt(r.qsmk.v)), QMul(b[3], QInt(r.sex.v))))

(* ------------------------- the estimator object ------------------------ *)

\* TimeFixedGFormula(data, exposure='qsmk', outcome='wt82_71',
\* outcome_type='normal'): the object keeps its own copy of the data, has no
\* fitted outcome model and no marginal outcome yet
TimeFixedGFormula(data) == [gf |-> data, model |-> <<>>, marginal_outcome |-> None]

\* the value of the name tfgf before the first assignment to it
Unbound == [gf |-> <<>>, model |-> <<>>, marginal_outcome |-> None]

\* tfgf.outcome_model(formula): fits the outcome model to the object's data
outcome_model(est) == [est EXCEPT !.model = Fit(est.gf)]

\* the treatment plans the notebook standardizes under
Policies == {"all", "none"}

\* faulty variant of ApplyPolicy: the plan 'none' leaves the observed treatment
ApplyPolicy_observed(t, treatment) ==
    [k \in 1..Len(t) |->
        [t[k] EXCEPT !.qsmk = IF treatment = "all" THEN Cell(1) ELSE t[k].qsmk]]

\* the object's data under a treatment plan: qsmk set to 1 for every record
\* ('all'), to 0 for every record ('none')
ApplyPolicy(t, treatment) ==
    [k \in 1..Len(t) |->
        [t[k] EXCEPT !.qsmk = IF treatment = "all" THEN Cell(1) ELSE Cell(0)]]

\* the predictions of model b for the records of g the model can predict
Predictions(b, g) ==
    LET usable == SelectSeq(g, LAMBDA r : ~isnull(r.qsmk) /\ ~isnull(r.sex))
    IN  [k \in 1..Len(usable) |-> predict(b, usable[k])]

\* faulty variant of fit: the new mean is added to the field's old value
fit_accumulate(est, treatment) ==
    LET m == Mean(Predictions(est.model, ApplyPolicy(est.gf, treatment)))
    IN  [est EXCEPT !.marginal_outcome =
            IF est.marginal_outcome = None THEN m ELSE QAdd(est.marginal_outcome, m)]

\* faulty variant of fit: a field that already holds a mean is left as it is
fit_first_only(est, treatment) ==
    IF est.marginal_outcome = None
    THEN [est EXCEPT !.marginal_outcome =
             Mean(Predictions(est.model, ApplyPolicy(est.gf, treatment)))]
    ELSE est

\* tfgf.fit(treatment=...): overwrites the field marginal_outcome with the
\* mean of the predictions under the plan
fit(est, treatment) ==
    [est EXCEPT !.marginal_outcome =
        Mean(Predictions(est.model, ApplyPolicy(est.gf, treatment)))]

(* ------------------------ interval arithmetic -------------------------- *)

\* np.std(x): the population standard deviation, kept as the exact number
\* sqrt(rad) with rad the mean squared deviation from the mean
std(x) ==
    LET m  == Mean(x)
        sq == [k \in 1..Len(x) |-> QMul(QSub(x[k], m), QSub(x[k], m))]
    IN  [rad |-> Mean(sq)]

\* the number c + k * sqrt(rad)
Wald(c, k, s) == [c |-> c, k |-> k, rad |-> s.rad]

NoStd == [rad |-> None]
NoWald == [c |-> None, k |-> None, rad |-> None]
NoOut == [point |-> None, lcl |-> NoWald, ucl |-> NoWald]

\* the literal 1.96
z == Q(196, 100)

(* ------------------------------- input --------------------------------- *)

\* the records Data/nhefs.csv is made of.  wt82_71 is the weight change
\* wt82 - wt71 (wt71 = 70 here), so it is missing exactly when wt82 is
Pool ==
    << [qsmk |-> Cell(0), sex |-> Cell(0), wt82 |-> Cell(70), wt82_71 |-> Cell(0)],
       [qsmk |-> Cell(0), sex |-> Cell(1), wt82 |-> NaN,      wt82_71 |-> NaN],
       [qsmk |-> Cell(1), sex |-> Cell(0), wt82 |-> Cell(74), wt82_71 |-> Cell(4)],
       [qsmk |-> Cell(1), sex |-> NaN,     wt82 |-> Cell(76), wt82_71 |-> Cell(6)],
       [qsmk |-> Cell(1), sex |-> Cell(1), wt82 |-> Cell(72), wt82_71 |-> Cell(2)],
       [qsmk |-> Cell(1), sex |-> Cell(0), wt82 |-> NaN,      wt82_71 |-> NaN] >>

\* the files of NRows distinct records, in the order of the list above
Files ==
    { [k \in 1..NRows |-> Pool[f[k]]] :
        f \in { g \in [1..NRows -> 1..Len(Pool)] :
                  \A k \in 1..(NRows - 1) : g[k] < g[k + 1] } }

(* ------------------------------ the program ---------------------------- *)

Init ==
    /\ csv \in Files
    /\ df = <<>>
    /\ tfgf = Unbound
    /\ rall = None
    /\ nall = None
    /\ ests = <<>>
    /\ i = 0
    /\ dfs = <<>>
    /\ rall_b = None
    /\ nall_b = None
    /\ se = NoStd
    /\ lcl = NoWald
    /\ ucl = NoWald
    /\ out = NoOut
    /\ fits = 0
    /\ calls = <<>>
    /\ pc = "read_csv"
    /\ random_state \in {seed(e) : e \in Entropy}
    /\ runs = <<>>
    /\ sas = <<>>
    /\ printed = <<>>

\* df = pd.read_csv('Data/nhefs.csv')
ReadCsv ==
    /\ pc = "read_csv"
    /\ df' = read_csv(csv)
    /\ pc' = "dropna"
    /\ UNCHANGED <<random_state, runs, sas, printed,
                   csv, tfgf, rall, nall, ests, i, dfs, rall_b, nall_b,
                   se, lcl, ucl, out, fits, calls>>

\* df.dropna(subset=[...], inplace=True)
DropNa ==
    /\ pc = "dropna"
    /\ df' = dropna(df, DropSubset)
    /\ pc' = "construct"
    /\ UNCHANGED <<random_state, runs, sas, printed,
                   csv, tfgf, rall, nall, ests, i, dfs, rall_b, nall_b,
                   se, lcl, ucl, out, fits, calls>>

\* tfgf = TimeFixedGFormula(df, ...)
Construct ==
    /\ pc = "construct"
    /\ tfgf' = TimeFixedGFormula(df)
    /\ pc' = "outcome_model"
    /\ UNCHANGED <<random_state, runs, sas, printed,
                   csv, df, rall, nall, ests, i, dfs, rall_b, nall_b,
                   se, lcl, ucl, out, fits, calls>>

\* faulty variant of OutcomeModel: the fitter works on the caller's table and
\* renumbers its index in place
OutcomeModel_inplace ==
    /\ pc = "outcome_model"
    /\ fits' = fits + 1
    /\ df' = [k \in 1..Len(df) |-> [df[k] EXCEPT !.idx = k - 1]]
    /\ IF CompleteCases(tfgf.gf) = <<>>
       THEN /\ pc' = "raised"
            /\ UNCHANGED tfgf
       ELSE /\ tfgf' = outcome_model(tfgf)
            /\ pc' = "fit_all"
    /\ UNCHANGED <<random_state, runs, sas, printed,
                   csv, rall, nall, ests, i, dfs, rall_b, nall_b,
                   se, lcl, ucl, out, calls>>

\* faulty variant of OutcomeModel: the exception is swallowed and the run goes
\* on with the bootstrap
OutcomeModel_swallow ==
    /\ pc = "outcome_model"
    /\ fits' = fits + 1
    /\ IF CompleteCases(tfgf.gf) = <<>>
       THEN /\ pc' = "loop"
            /\ UNCHANGED tfgf
       ELSE /\ tfgf' = outcome_model(tfgf)
            /\ pc' = "fit_all"
    /\ UNCHANGED <<random_state, runs, sas, printed,
                   csv, df, rall, nall, ests, i, dfs, rall_b, nall_b,
                   se, lcl, ucl, out, calls>>

\* faulty variant of OutcomeModel: a design without full column rank raises
\* as well
OutcomeModel_strict ==
    /\ pc = "outcome_model"
    /\ fits' = fits + 1
    /\ IF Cardinality(DesignCells(CompleteCases(tfgf.gf))) < 3
       THEN /\ pc' = "raised"
            /\ UNCHANGED tfgf
       ELSE /\ tfgf' = outcome_model(tfgf)
            /\ pc' = "fit_all"
    /\ UNCHANGED <<random_state, runs, sas, printed,
                   csv, df, rall, nall, ests, i, dfs, rall_b, nall_b,
                   se, lcl, ucl, out, calls>>

\* tfgf.outcome_model(...): an exception ends the run when there is no
\* complete case to fit
OutcomeModel ==
    /\ pc = "outcome_model"
    /\ fits' = fits + 1
    /\ IF CompleteCases(tfgf.gf) = <<>>
       THEN /\ pc' = "raised"
            /\ UNCHANGED tfgf
       ELSE /\ tfgf' = outcome_model(tfgf)
            /\ pc' = "fit_all"
    /\ UNCHANGED <<random_state, runs, sas, printed,
                   csv, df, rall, nall, ests, i, dfs, rall_b, nall_b,
                   se, lcl, ucl, out, calls>>

\* tfgf.fit(treatment='all')
FitAll ==
    /\ pc = "fit_all"
    /\ tfgf' = fit(tfgf, "all")
    /\ pc' = "rall"
    /\ UNCHANGED <<random_state, runs, sas, printed,
                   csv, df, rall, nall, ests, i, dfs, rall_b, nall_b,
                   se, lcl, ucl, out, fits, calls>>

\* rall = tfgf.marginal_outcome
ReadRall ==
    /\ pc = "rall"
    /\ rall' = tfgf.marginal_outcome
    /\ pc' = "fit_none"
    /\ UNCHANGED <<random_state, runs, sas, printed,
                   csv, df, tfgf, nall, ests, i, dfs, rall_b, nall_b,
                   se, lcl, ucl, out, fits, calls>>

\* tfgf.fit(treatment='none')
FitNone ==
    /\ pc = "fit_none"
    /\ tfgf' = fit(tfgf, "none")
    /\ pc' = "nall"
    /\ UNCHANGED <<random_state, runs, sas, printed,
                   csv, df, rall, nall, ests, i, dfs, rall_b, nall_b,
                   se, lcl, ucl, out, fits, calls>>

\* nall = tfgf.marginal_outcome ; ests = []
ReadNall ==
    /\ pc = "nall"
    /\ nall' = tfgf.marginal_outcome
    /\ ests' = <<>>
    /\ pc' = "loop"
    /\ UNCHANGED <<random_state, runs, sas, printed,
                   csv, df, tfgf, rall, i, dfs, rall_b, nall_b,
                   se, lcl, ucl, out, fits, calls>>

\* faulty variant of Sample: the estimator of the previous iteration is kept
\* and only handed the new resample
Sample_reuse_estimator ==
    /\ pc = "loop"
    /\ i < B
    /\ dfs' = sample(df, shape0(df), choice(random_state, Len(df), shape0(df)))
    /\ random_state' = advance(random_state, shape0(df))
    /\ tfgf' = [tfgf EXCEPT !.gf = dfs']
    /\ i' = i + 1
    /\ pc' = "b_outcome_model"
    /\ UNCHANGED <<runs, sas, printed,
                   csv, df, rall, nall, ests, rall_b, nall_b,
                   se, lcl, ucl, out, fits, calls>>

\* faulty variant of Sample: the resample is assigned to df as well
Sample_inplace ==
    /\ pc = "loop"
    /\ i < B
    /\ dfs' = sample(df, shape0(df), choice(random_state, Len(df), shape0(df)))
    /\ random_state' = advance(random_state, shape0(df))
    /\ df' = dfs'
    /\ tfgf' = TimeFixedGFormula(dfs')
    /\ i' = i + 1
    /\ pc' = "b_outcome_model"
    /\ UNCHANGED <<runs, sas, printed,
                   csv, rall, nall, ests, rall_b, nall_b,
                   se, lcl, ucl, out, fits, calls>>

\* faulty variant of Sample: the rows are drawn from a source of its own and
\* not from the global generator
Sample_fresh_entropy ==
    /\ pc = "loop"
    /\ i < B
    /\ \E pick \in Draws(df, shape0(df)) : dfs' = sample(df, shape0(df), pick)
    /\ tfgf' = TimeFixedGFormula(dfs')
    /\ i' = i + 1
    /\ pc' = "b_outcome_model"
    /\ UNCHANGED <<random_state, runs, sas, printed,
                   csv, df, rall, nall, ests, rall_b, nall_b,
                   se, lcl, ucl, out, fits, calls>>

\* for i in range(B): dfs = df.sample(n=df.shape[0], replace=True)
\*                      tfgf = TimeFixedGFormula(dfs, ...)
Sample ==
    /\ pc = "loop"
    /\ i < B
    /\ dfs' = sample(df, shape0(df), choice(random_state, Len(df), shape0(df)))
    /\ random_state' = advance(random_state, shape0(df))
    /\ tfgf' = TimeFixedGFormula(dfs')
    /\ i' = i + 1
    /\ pc' = "b_outcome_model"
    /\ UNCHANGED <<runs, sas, printed,
                   csv, df, rall, nall, ests, rall_b, nall_b,
                   se, lcl, ucl, out, fits, calls>>

\* faulty variant of BootOutcomeModel: a resample whose design has not full
\* column rank raises
BootOutcomeModel_strict ==
    /\ pc = "b_outcome_model"
    /\ fits' = fits + 1
    /\ IF Cardinality(DesignCells(CompleteCases(tfgf.gf))) < 3
       THEN /\ pc' = "raised"
            /\ UNCHANGED tfgf
       ELSE /\ tfgf' = outcome_model(tfgf)
            /\ pc' = "b_fit_all"
    /\ UNCHANGED <<random_state, runs, sas, printed,
                   csv, df, rall, nall, ests, i, dfs, rall_b, nall_b,
                   se, lcl, ucl, out, calls>>

\* tfgf.outcome_model(...) in the loop
BootOutcomeModel ==
    /\ pc = "b_outcome_model"
    /\ fits' = fits + 1
    /\ IF CompleteCases(tfgf.gf) = <<>>
       THEN /\ pc' = "raised"
            /\ UNCHANGED tfgf
       ELSE /\ tfgf' = outcome_model(tfgf)
            /\ pc' = "b_fit_all"
    /\ UNCHANGED <<random_state, runs, sas, printed,
                   csv, df, rall, nall, ests, i, dfs, rall_b, nall_b,
                   se, lcl, ucl, out, calls>>

\* faulty variant of BootFitAll: the iteration's all-treated mean is written
\* to the primary name rall as well
BootFitAll_writes_rall ==
    /\ pc = "b_fit_all"
    /\ tfgf' = fit(tfgf, "all")
    /\ rall_b' = tfgf'.marginal_outcome
    /\ rall' = tfgf'.marginal_outcome
    /\ pc' = "b_fit_none"
    /\ UNCHANGED <<random_state, runs, sas, printed,
                   csv, df, nall, ests, i, dfs, nall_b,
                   se, lcl, ucl, out, fits, calls>>

\* tfgf.fit(treatment='all') ; rall_b = tfgf.marginal_outcome
BootFitAll ==
    /\ pc = "b_fit_all"
    /\ tfgf' = fit(tfgf, "all")
    /\ rall_b' = tfgf'.marginal_outcome
    /\ pc' = "b_fit_none"
    /\ UNCHANGED <<random_state, runs, sas, printed,
                   csv, df, rall, nall, ests, i, dfs, nall_b,
                   se, lcl, ucl, out, fits, calls>>

\* tfgf.fit(treatment='none') ; nall_b = tfgf.marginal_outcome
BootFitNone ==
    /\ pc = "b_fit_none"
    /\ tfgf' = fit(tfgf, "none")
    /\ nall_b' = tfgf'.marginal_outcome
    /\ pc' = "append"
    /\ UNCHANGED <<random_state, runs, sas, printed,
                   csv, df, rall, nall, ests, i, dfs, rall_b,
                   se, lcl, ucl, out, fits, calls>>

\* faulty variant of AppendEst: the contrast taken in the reverse order
AppendEst_reversed ==
    /\ pc = "append"
    /\ ests' = Append(ests, QSub(nall_b, rall_b))
    /\ pc' = "loop"
    /\ UNCHANGED <<random_state, runs, sas, printed,
                   csv, df, tfgf, rall, nall, i, dfs, rall_b, nall_b,
                   se, lcl, ucl, out, fits, calls>>

\* faulty variant of AppendEst: the contrast is put at the front of the list
AppendEst_front ==
    /\ pc = "append"
    /\ ests' = <<QSub(rall_b, nall_b)>> \o ests
    /\ pc' = "loop"
    /\ UNCHANGED <<random_state, runs, sas, printed,
                   csv, df, tfgf, rall, nall, i, dfs, rall_b, nall_b,
                   se, lcl, ucl, out, fits, calls>>

\* ests.append(rall_b - nall_b)
AppendEst ==
    /\ pc = "append"
    /\ ests' = Append(ests, QSub(rall_b, nall_b))
    /\ pc' = "loop"
    /\ UNCHANGED <<random_state, runs, sas, printed,
                   csv, df, tfgf, rall, nall, i, dfs, rall_b, nall_b,
                   se, lcl, ucl, out, fits, calls>>

\* faulty variant of StdDev: the deviation is taken as soon as one replicate
\* is there
StdDev_early ==
    /\ pc = "loop"
    /\ i >= 1
    /\ se' = std(ests)
    /\ pc' = "lcl"
    /\ UNCHANGED <<random_state, runs, sas, printed,
                   csv, df, tfgf, rall, nall, ests, i, dfs, rall_b, nall_b,
                   lcl, ucl, out, fits, calls>>

\* faulty variant of StdDev: the first replicate is left out of the deviation
StdDev_skip_first ==
    /\ pc = "loop"
    /\ i >= B
    /\ se' = std(Tail(ests))
    /\ pc' = "lcl"
    /\ UNCHANGED <<random_state, runs, sas, printed,
                   csv, df, tfgf, rall, nall, ests, i, dfs, rall_b, nall_b,
                   lcl, ucl, out, fits, calls>>

\* the loop is exhausted ; se = np.std(ests)
StdDev ==
    /\ pc = "loop"
    /\ i >= B
    /\ se' = std(ests)
    /\ pc' = "lcl"
    /\ UNCHANGED <<random_state, runs, sas, printed,
                   csv, df, tfgf, rall, nall, ests, i, dfs, rall_b, nall_b,
                   lcl, ucl, out, fits, calls>>

\* faulty variant of Lower: the limit is centred on the mean of the replicates
Lower_on_mean ==
    /\ pc = "lcl"
    /\ lcl' = Wald(Mean(ests), QNeg(z), se)
    /\ pc' = "ucl"
    /\ UNCHANGED <<random_state, runs, sas, printed,
                   csv, df, tfgf, rall, nall, ests, i, dfs, rall_b, nall_b,
                   se, ucl, out, fits, calls>>

\* lcl = (rall - nall) - 1.96*se
Lower ==
    /\ pc = "lcl"
    /\ lcl' = Wald(QSub(rall, nall), QNeg(z), se)
    /\ pc' = "ucl"
    /\ UNCHANGED <<random_state, runs, sas, printed,
                   csv, df, tfgf, rall, nall, ests, i, dfs, rall_b, nall_b,
                   se, ucl, out, fits, calls>>

\* ucl = (rall - nall) + 1.96*se
Upper ==
    /\ pc = "ucl"
    /\ ucl' = Wald(QSub(rall, nall), z, se)
    /\ pc' = "print"
    /\ UNCHANGED <<random_state, runs, sas, printed,
                   csv, df, tfgf, rall, nall, ests, i, dfs, rall_b, nall_b,
                   se, lcl, out, fits, calls>>

\* the report cell (the rounding to two decimals is not modelled)
Report ==
    /\ pc = "print"
    /\ out' = [point |-> QSub(rall, nall), lcl |-> lcl, ucl |-> ucl]
    /\ pc' = "done"
    /\ UNCHANGED <<random_state, runs, sas, printed,
                   csv, df, tfgf, rall, nall, ests, i, dfs, rall_b, nall_b,
                   se, lcl, ucl, fits, calls>>

Next ==
    \/ ReadCsv \/ DropNa \/ Construct \/ OutcomeModel
    \/ FitAll \/ ReadRall \/ FitNone \/ ReadNall
    \/ Sample \/ BootOutcomeModel \/ BootFitAll \/ BootFitNone
    \/ AppendEst \/ StdDev \/ Lower \/ Upper \/ Report

Spec == Init /\ [][Next]_vars

\* the notebook's cells run to the end when nothing raises
FairSpec == Spec /\ WF_vars(Next)

(* ----------------- standardization called in any order ----------------- *)

\* one more call tfgf.fit(treatment=p) on the primary estimator, its result
\* read from tfgf.marginal_outcome and logged
Standardize ==
    /\ pc = "fit_all"
    /\ Len(calls) < MaxCalls
    /\ \E p \in Policies :
          /\ tfgf' = fit(tfgf, p)
          /\ calls' = Append(calls, [treatment |-> p, value |-> tfgf'.marginal_outcome])
    /\ UNCHANGED <<random_state, runs, sas, printed,
                   csv, df, rall, nall, ests, i, dfs, rall_b, nall_b,
                   se, lcl, ucl, out, fits, pc>>

NextCalls == ReadCsv \/ DropNa \/ Construct \/ OutcomeModel \/ Standardize

\* the primary estimator, standardized under the plans in any order
SpecCalls == Init /\ [][NextCalls]_vars

(* ----------------------- the simulation notebook ----------------------- *)

\* The first notebook of src/unnamed/part_000.  A table is the record of its
\* columns, a column the sequence of its values, a value an exact rational.
\* A normal draw takes one of the values -1, 0, 1 and a uniform draw one of
\* the values 0/16, ..., 15/16.

\* the population size n of the cells; stands for n = 10000 of the source
NSim == 2

\* number of cell runs and calls of simulate_data in one session
MaxRuns == 3

\* pd.DataFrame()
DataFrame == <<>>

\* df[c] = v
SetCol(t, c, v) == [x \in (DOMAIN t) \cup {c} |-> IF x = c THEN v ELSE t[x]]

\* df[[...]]: the listed columns of the table
Columns(t, cs) == [x \in cs |-> t[x]]

\* a probability given as a number
Prob(q) == [cdf |-> FALSE, x |-> q]

\* logistic.cdf(x): the probability 1 / (1 + exp(-x)), kept by its argument
logistic_cdf(x) == [cdf |-> TRUE, x |-> x]

\* log(r / (16 - r)) for r = 1..15, in thousandths
Logit16 ==
    << -2708, -1946, -1466, -1099, -788, -511, -251, 0,
       251, 511, 788, 1099, 1466, 1946, 2708 >>

\* the uniform number r/16 is below the probability p.  For a logistic
\* probability, r/16 < 1/(1 + exp(-x)) exactly when log(r/(16 - r)) < x
Below(r, p) ==
    IF p.cdf
    THEN r = 0 \/ ~QLe(p.x, Q(Logit16[r], 1000))
    ELSE ~QLe(p.x, Q(r, 16))

\* np.random.binomial(n=1, p=p, size=size): one uniform number per draw, the
\* draw is 1 when the number is below p
binomial(g, p, size) ==
    [k \in 1..size |-> IF Below(raw(g, k), p[k]) THEN QInt(1) ELSE QInt(0)]

\* np.random.normal(size=size): one raw value per draw
normal(g, size) ==
    [k \in 1..size |-> IF raw(g, k) < 4 THEN QInt(-1)
                        ELSE IF raw(g, k) < 12 THEN QInt(0) ELSE QInt(1)]

\* a number broadcast to a column of the given size
Broadcast(q, size) == [k \in 1..size |-> q]

\* faulty variant of Observed: the potential outcomes are swapped
Observed_swapped(A, Y1, Y0) ==
    [k \in 1..Len(A) |->
        QAdd(QMul(A[k], Y0[k]), QMul(QSub(QInt(1), A[k]), Y1[k]))]

\* df['A']*df['Y1'] + (1 - df['A'])*df['Y0']
Observed(A, Y1, Y0) ==
    [k \in 1..Len(A) |->
        QAdd(QMul(A[k], Y1[k]), QMul(QSub(QInt(1), A[k]), Y0[k]))]

\* the column c + w*W + l*L + wl*W*L
Linear(c, w, l, wl, W, L) ==
    [k \in 1..Len(W) |->
        QAdd(QAdd(c, QMul(w, W[k])),
             QAdd(QMul(l, L[k]), QMul(wl, QMul(W[k], L[k]))))]

\* the column u + q*e
Noise(u, q, e) == [k \in 1..Len(u) |-> QAdd(u[k], QMul(q, e[k]))]

\* the column of the logistic probabilities of the values of u
Expit(u) == [k \in 1..Len(u) |-> logistic_cdf(u[k])]

\* the body of the first seeded cell: W, then A given W
cell_W_A(g, size) ==
    LET W  == binomial(g, Broadcast(Prob(Q(1, 2)), size), size)
        g1 == advance(g, size)
        pA == Linear(Q(5, 100), Q(45, 100), QInt(0), QInt(0), W, W)
        A  == binomial(g1, [k \in 1..size |-> Prob(pA[k])], size)
    IN  [df |-> SetCol(SetCol(DataFrame, "W", W), "A", A),
         g  |-> advance(g1, size)]

\* the body of the second seeded cell: W, L, then A given W and L
cell_W_L_A(g, size) ==
    LET W  == binomial(g, Broadcast(Prob(Q(1, 2)), size), size)
        g1 == advance(g, size)
        L  == normal(g1, size)
        g2 == advance(g1, size)
        A  == binomial(g2, Expit(Linear(Q(-294, 100), Q(-173, 100),
                                        Q(-193, 100), QInt(0), W, L)), size)
    IN  [df |-> SetCol(SetCol(SetCol(DataFrame, "W", W), "L", L), "A", A),
         g  |-> advance(g2, size)]

\* the body of the third seeded cell: W, L, A, the binary potential outcomes
\* Y0 and Y1 and the observed outcome Y
cell_binary(g, size) ==
    LET W  == binomial(g, Broadcast(Prob(Q(1, 2)), size), size)
        g1 == advance(g, size)
        L  == normal(g1, size)
        g2 == advance(g1, size)
        A  == binomial(g2, Expit(Linear(QInt(-3), QInt(3), Q(-15, 10),
                                        QInt(0), W, L)), size)
        g3 == advance(g2, size)
        Y0 == binomial(g3, Expit(Linear(QInt(-3), QInt(3), Q(15, 10),
                                        QInt(0), W, L)), size)
        g4 == advance(g3, size)
        Y1 == binomial(g4, Expit(Linear(Q(-5, 10), QInt(3), Q(15, 10),
                                        QInt(0), W, L)), size)
        t3 == SetCol(SetCol(SetCol(DataFrame, "W", W), "L", L), "A", A)
        t5 == SetCol(SetCol(t3, "Y0", Y0), "Y1", Y1)
    IN  [df |-> SetCol(t5, "Y", Observed(A, Y1, Y0)),
         g  |-> advance(g4, size)]

\* the body of the cell with normal potential outcomes, which is also the
\* body of simulate_data: W, L, A, Y0, Y1 and the observed outcome Y
cell_normal(g, size) ==
    LET W  == binomial(g, Broadcast(Prob(Q(1, 2)), size), size)
        g1 == advance(g, size)
        L  == normal(g1, size)
        g2 == advance(g1, size)
        A  == binomial(g2, Expit(Linear(QInt(-3), QInt(3), Q(-15, 10),
                                        QInt(0), W, L)), size)
        g3 == advance(g2, size)
        Y0 == Noise(Linear(QInt(0), QInt(2), QInt(6), Q(3, 10), W, L),
                    QInt(5), normal(g3, size))
        g4 == advance(g3, size)
        Y1 == Noise(Linear(QInt(-10), QInt(2), QInt(6), Q(3, 10), W, L),
                    QInt(5), normal(g4, size))
        t3 == SetCol(SetCol(SetCol(DataFrame, "W", W), "L", L), "A", A)
        t5 == SetCol(SetCol(t3, "Y0", Y0), "Y1", Y1)
    IN  [df |-> SetCol(t5, "Y", Observed(A, Y1, Y0)),
         g  |-> advance(g4, size)]

\* a Python number passed for n: an int or a float
IntArg(k) == [type |-> "int", v |-> QInt(k)]
FloatArg(q) == [type |-> "float", v |-> q]

\* the arguments simulate_data is called with
Args ==
    {IntArg(k) : k \in (0 - 1)..NSim}
        \cup {FloatArg(Q(1, 2)), FloatArg(Q(-3, 2)), FloatArg(QInt(NSim))}

\* the entry of the session log for a run that raised before its first draw
Raised(name, a) ==
    [cell |-> name, arg |-> a, raised |-> TRUE, drawn |-> 0,
     df |-> DataFrame, ret |-> DataFrame]

\* simulate_data(n): ValueError when n < 0 or n is not an int; otherwise the
\* table is drawn and its columns Y, A, W, L are returned (the printing of
\* the ATE changes nothing)
simulate_data(a, g) ==
    IF (~QLe(QInt(0), a.v)) \/ a.type # "int"
    THEN [raised |-> TRUE, df |-> DataFrame, ret |-> DataFrame, g |-> g]
    ELSE LET r == cell_normal(g, a.v.n)
         IN  [raised |-> FALSE, df |-> r.df,
              ret |-> Columns(r.df, {"Y", "A", "W", "L"}), g |-> r.g]

\* the session before the first cell is run
SimInit ==
    /\ csv = <<>>
    /\ df = DataFrame
    /\ tfgf = Unbound
    /\ rall = None
    /\ nall = None
    /\ ests = <<>>
    /\ i = 0
    /\ dfs = <<>>
    /\ rall_b = None
    /\ nall_b = None
    /\ se = NoStd
    /\ lcl = NoWald
    /\ ucl = NoWald
    /\ out = NoOut
    /\ fits = 0
    /\ calls = <<>>
    /\ pc = "simulation"
    /\ random_state \in {seed(e) : e \in Entropy}
    /\ runs = <<>>
    /\ sas = <<>>
    /\ printed = <<>>

\* the entry of the session log for a cell that ran to its end
Ran(name, t, g) ==
    [cell |-> name, arg |-> IntArg(NSim), raised |-> FALSE, drawn |-> g.pos,
     df |-> t, ret |-> DataFrame]

\* np.random.seed(1859031) ; n = 10000 ; df with W and A
SeededCell1 ==
    /\ pc = "simulation"
    /\ Len(runs) < MaxRuns
    /\ LET r == cell_W_A(seed(1859031), NSim)
       IN  /\ df' = r.df
           /\ random_state' = r.g
           /\ runs' = Append(runs, Ran("W_A", r.df, r.g))
    /\ UNCHANGED <<gformula, pc, sas, printed>>

\* faulty variant of SeededCell2: the cell does not seed the generator
SeededCell2_unseeded ==
    /\ pc = "simulation"
    /\ Len(runs) < MaxRuns
    /\ LET r == cell_W_L_A(random_state, NSim)
       IN  /\ df' = r.df
           /\ random_state' = r.g
           /\ runs' = Append(runs, Ran("W_L_A", r.df, r.g))
    /\ UNCHANGED <<gformula, pc, sas, printed>>

\* np.random.seed(1859031) ; n = 10000 ; df with W, L and A
SeededCell2 ==
    /\ pc = "simulation"
    /\ Len(runs) < MaxRuns
    /\ LET r == cell_W_L_A(seed(1859031), NSim)
       IN  /\ df' = r.df
           /\ random_state' = r.g
           /\ runs' = Append(runs, Ran("W_L_A", r.df, r.g))
    /\ UNCHANGED <<gformula, pc, sas, printed>>

\* np.random.seed(1859031) ; n = 10000 ; df with binary potential outcomes
SeededCell3 ==
    /\ pc = "simulation"
    /\ Len(runs) < MaxRuns
    /\ LET r == cell_binary(seed(1859031), NSim)
       IN  /\ df' = r.df
           /\ random_state' = r.g
           /\ runs' = Append(runs, Ran("binary", r.df, r.g))
    /\ UNCHANGED <<gformula, pc, sas, printed>>

\* the names n and logistic are bound once the second or the third seeded
\* cell has run
Bound == \E k \in 1..Len(runs) : runs[k].cell \in {"W_L_A", "binary"}

\* the cell with normal potential outcomes: it draws from the generator as
\* the cells before left it
NormalCell ==
    /\ pc = "simulation"
    /\ Len(runs) < MaxRuns
    /\ Bound
    /\ LET r == cell_normal(random_state, NSim)
       IN  /\ df' = r.df
           /\ random_state' = r.g
           /\ runs' = Append(runs, [Ran("normal", r.df, r.g) EXCEPT
                                      !.drawn = r.g.pos - random_state.pos])
    /\ UNCHANGED <<gformula, pc, sas, printed>>

\* a call simulate_data(n): the global df is not assigned
CallSimulateData ==
    /\ pc = "simulation"
    /\ Len(runs) < MaxRuns
    /\ Bound
    /\ \E a \in Args :
          LET r == simulate_data(a, random_state)
          IN  /\ random_state' = r.g
              /\ runs' = Append(runs,
                     [cell |-> "simulate_data", arg |-> a, raised |-> r.raised,
                      drawn |-> r.g.pos - random_state.pos,
                      df |-> r.df, ret |-> r.ret])
    /\ UNCHANGED <<gformula, df, pc, sas, printed>>

NextSim ==
    \/ SeededCell1 \/ SeededCell2 \/ SeededCell3
    \/ NormalCell \/ CallSimulateData

\* a session of the simulation notebook: its cells run in any order
SpecSim == SimInit /\ [][NextSim]_vars

(* -------------------- the data management notebook --------------------- *)

\* src/2_Data-Basics/1_data_management.ipynb from pd.read_sas on.  The table
\* is a sequence of records as above; of the columns of sample_sas.sas7bdat
\* the model carries art, dead and age0, and of the columns the notebook
\* adds, age2_numpy and age2_pandas.

\* number of records of sample_sas.sas7bdat
NSas == 3

\* the records sample_sas.sas7bdat is made of
SasPool ==
    << [art |-> Cell(1), dead |-> Cell(0), age0 |-> Cell(51)],
       [art |-> Cell(0), dead |-> Cell(1), age0 |-> Cell(50)],
       [art |-> NaN,     dead |-> Cell(0), age0 |-> Cell(49)],
       [art |-> Cell(1), dead |-> NaN,     age0 |-> Cell(48)],
       [art |-> Cell(1), dead |-> Cell(1), age0 |-> NaN],
       [art |-> Cell(0), dead |-> NaN,     age0 |-> Cell(51)],
       [art |-> NaN,     dead |-> NaN,     age0 |-> NaN],
       [art |-> Cell(1), dead |-> Cell(0), age0 |-> Cell(49)] >>

\* the files of NSas distinct records, in the order of the list above
SasFiles ==
    { [k \in 1..NSas |-> SasPool[f[k]]] :
        f \in { g \in [1..NSas -> 1..Len(SasPool)] :
                  \A k \in 1..(NSas - 1) : g[k] < g[k + 1] } }

\* pd.read_sas: the records of the file in file order under a RangeIndex
read_sas(file) ==
    [k \in 1..Len(file) |->
        [idx |-> k - 1, art |-> file[k].art, dead |-> file[k].dead,
         age0 |-> file[k].age0]]

\* df[c]: the column as a sequence of cells
Series(t, c) == [k \in 1..Len(t) |-> t[k][c]]

\* a number broadcast to a column of cells as long as the table
Scalar(t, v) == [k \in 1..Len(t) |-> Cell(v)]

\* series == v, series > v, series <= v: a missing cell compares False
eq(x, v) == [k \in 1..Len(x) |-> ~isnull(x[k]) /\ x[k].v = v]
gt(x, v) == [k \in 1..Len(x) |-> ~isnull(x[k]) /\ x[k].v > v]
le(x, v) == [k \in 1..Len(x) |-> ~isnull(x[k]) /\ x[k].v <= v]

\* faulty variant of And: the inclusive or of two boolean series
And_or(a, b) == [k \in 1..Len(a) |-> a[k] \/ b[k]]

\* (a) & (b) of two boolean series
And(a, b) == [k \in 1..Len(a) |-> a[k] /\ b[k]]

\* df.loc[m]: the rows at which the boolean series m is True
loc(t, m) ==
    LET F[k \in 0..Len(t)] ==
            IF k = 0 THEN <<>>
            ELSE IF m[k] THEN Append(F[k - 1], t[k]) ELSE F[k - 1]
    IN  F[Len(t)]

\* the record r with the field c set to the cell v
WithField(r, c, v) == [f \in (DOMAIN r) \cup {c} |-> IF f = c THEN v ELSE r[f]]

\* df.loc[m, c] = x: the cells of column c at the rows where m is True are
\* set to those of x; a column that did not exist is missing elsewhere
loc_set(t, m, c, x) ==
    [k \in 1..Len(t) |->
        IF m[k] THEN WithField(t[k], c, x[k])
        ELSE IF c \in DOMAIN t[k] THEN t[k] ELSE WithField(t[k], c, NaN)]

\* df[c] = x
setitem(t, c, x) == [k \in 1..Len(t) |-> WithField(t[k], c, x[k])]

\* np.where(m, x, y)
np_where(m, x, y) == [k \in 1..Len(m) |-> IF m[k] THEN x[k] ELSE y[k]]

\* faulty variant of crosstab: a row with a missing value is counted under
\* the label 0
crosstab_counts_missing(t, r, c, drop) ==
    LET rows == {t[k][r].v : k \in 1..Len(t)}
        cols == {t[k][c].v : k \in 1..Len(t)}
    IN  [index |-> rows, columns |-> cols,
         count |-> [p \in rows \X cols |->
                      Cardinality({k \in 1..Len(t) :
                                      t[k][r].v = p[1] /\ t[k][c].v = p[2]})]]

\* pd.crosstab(df[r], df[c], dropna=...): the counts of the rows by their
\* values of r and c.  A row with a missing value in r or c belongs to no
\* group; dropna=True drops the labels that have no count at all
crosstab(t, r, c, drop) ==
    LET both == loc(t, [k \in 1..Len(t) |-> ~isnull(t[k][r]) /\ ~isnull(t[k][c])])
        rows == {both[k][r].v : k \in 1..Len(both)}
        cols == {both[k][c].v : k \in 1..Len(both)}
        n[p \in rows \X cols] ==
            Cardinality({k \in 1..Len(both) :
                            both[k][r].v = p[1] /\ both[k][c].v = p[2]})
        index   == IF drop THEN {a \in rows : \E d \in cols : n[<<a, d>>] > 0}
                   ELSE rows
        columns == IF drop THEN {d \in cols : \E a \in rows : n[<<a, d>>] > 0}
                   ELSE cols
    IN  [index |-> index, columns |-> columns,
         count |-> [p \in index \X columns |-> n[p]]]

\* df.fillna(value): every missing cell becomes value
fillna(t, value) ==
    [k \in 1..Len(t) |->
        [f \in DOMAIN t[k] |->
            IF f = "idx" THEN t[k][f]
            ELSE IF isnull(t[k][f]) THEN Cell(value) ELSE t[k][f]]]

\* a crosstab that was not printed yet
NoTab == [index |-> {}, columns |-> {}, count |-> <<>>]

\* the outputs of the printing cells, before any of them has run
NoPrinted ==
    [art1 |-> <<>>, sel |-> <<>>, xtab |-> NoTab, xtab_dropna |-> NoTab,
     xtab_filled |-> NoTab]

DMInit ==
    /\ csv = <<>>
    /\ df = <<>>
    /\ tfgf = Unbound
    /\ rall = None
    /\ nall = None
    /\ ests = <<>>
    /\ i = 0
    /\ dfs = <<>>
    /\ rall_b = None
    /\ nall_b = None
    /\ se = NoStd
    /\ lcl = NoWald
    /\ ucl = NoWald
    /\ out = NoOut
    /\ fits = 0
    /\ calls = <<>>
    /\ pc = "read_sas"
    /\ random_state = seed(0)
    /\ runs = <<>>
    /\ sas \in SasFiles
    /\ printed = NoPrinted

\* df = pd.read_sas('sample_sas.sas7bdat')
ReadSas ==
    /\ pc = "read_sas"
    /\ df' = read_sas(sas)
    /\ pc' = "crosstab"
    /\ UNCHANGED <<gformula, random_state, runs, sas, printed>>

\* print(pd.crosstab(df['art'], df['dead']))
Crosstab ==
    /\ pc = "crosstab"
    /\ printed' = [printed EXCEPT !.xtab = crosstab(df, "art", "dead", TRUE)]
    /\ pc' = "loc_art"
    /\ UNCHANGED <<gformula, random_state, runs, sas, df>>

\* print(df.loc[df['art']==1])
LocArt ==
    /\ pc = "loc_art"
    /\ printed' = [printed EXCEPT !.art1 = loc(df, eq(Series(df, "art"), 1))]
    /\ pc' = "loc"
    /\ UNCHANGED <<gformula, random_state, runs, sas, df>>

\* print(df.loc[(df['art'] == 1) & (df['age0'] > 48)])
Loc ==
    /\ pc = "loc"
    /\ printed' = [printed EXCEPT !.sel =
                      loc(df, And(eq(Series(df, "art"), 1),
                                  gt(Series(df, "age0"), 48)))]
    /\ pc' = "np_where"
    /\ UNCHANGED <<gformula, random_state, runs, sas, df>>

\* df['age2_numpy'] = np.where(df['age0'] > 50, 50, df['age0'])
NpWhere ==
    /\ pc = "np_where"
    /\ df' = setitem(df, "age2_numpy",
                     np_where(gt(Series(df, "age0"), 50), Scalar(df, 50),
                              Series(df, "age0")))
    /\ pc' = "df_loc"
    /\ UNCHANGED <<gformula, random_state, runs, sas, printed>>

\* faulty variant of DfLoc: the second assignment leaves out the rows whose
\* age0 is 50
DfLoc_below ==
    /\ pc = "df_loc"
    /\ LET t == loc_set(df, gt(Series(df, "age0"), 50), "age2_pandas",
                        Scalar(df, 50))
       IN  df' = loc_set(t, le(Series(t, "age0"), 49), "age2_pandas",
                         Series(t, "age0"))
    /\ pc' = "crosstab_dropna"
    /\ UNCHANGED <<gformula, random_state, runs, sas, printed>>

\* df.loc[df['age0'] > 50, 'age2_pandas'] = 50
\* df.loc[df['age0'] <= 50, 'age2_pandas'] = df['age0']
DfLoc ==
    /\ pc = "df_loc"
    /\ LET t == loc_set(df, gt(Series(df, "age0"), 50), "age2_pandas",
                        Scalar(df, 50))
       IN  df' = loc_set(t, le(Series(t, "age0"), 50), "age2_pandas",
                         Series(t, "age0"))
    /\ pc' = "crosstab_dropna"
    /\ UNCHANGED <<gformula, random_state, runs, sas, printed>>

\* print(pd.crosstab(df['art'], df['dead'], dropna=False))
CrosstabDropna ==
    /\ pc = "crosstab_dropna"
    /\ printed' = [printed EXCEPT !.xtab_dropna =
                      crosstab(df, "art", "dead", FALSE)]
    /\ pc' = "fillna"
    /\ UNCHANGED <<gformula, random_state, runs, sas, df>>

\* faulty variant of FillnaCrosstab: the table is filled with 0, a value the
\* data holds
FillnaCrosstab_zero ==
    /\ pc = "fillna"
    /\ df' = fillna(df, 0)
    /\ printed' = [printed EXCEPT !.xtab_filled =
                      crosstab(df', "art", "dead", TRUE)]
    /\ pc' = "done"
    /\ UNCHANGED <<gformula, random_state, runs, sas>>

\* df.fillna(-99999, inplace=True) ; print(pd.crosstab(df['art'], df['dead']))
FillnaCrosstab ==
    /\ pc = "fillna"
    /\ df' = fillna(df, -99999)
    /\ printed' = [printed EXCEPT !.xtab_filled =
                      crosstab(df', "art", "dead", TRUE)]
    /\ pc' = "done"
    /\ UNCHANGED <<gformula, random_state, runs, sas>>

NextDM ==
    \/ ReadSas \/ Crosstab \/ LocArt \/ Loc \/ NpWhere \/ DfLoc
    \/ CrosstabDropna \/ FillnaCrosstab

\* a run of the data management notebook from pd.read_sas to its end
SpecDM == DMInit /\ [][NextDM]_vars

(* ------------------------------ properties ----------------------------- *)

\* the index labels of a table
Labels(t) == {t[k].idx : k \in 1..Len(t)}

\* the standardized mean of model b on table t under a treatment plan
StdMean(b, t, treatment) == Mean(Predictions(b, ApplyPolicy(t, treatment)))

\* the two-plan contrast of table t: one fit, all-treated minus all-untreated
Contrast(t) ==
    LET b == Fit(t)
    IN  QSub(StdMean(b, t, "all"), StdMean(b, t, "none"))

\* C1: in every iteration the resample has exactly as many rows as df and
\* every row of it carries the index label of a row of df
C1_ResampleOfDf ==
    i >= 1 => /\ Len(dfs) = Len(df)
              /\ \A k \in 1..Len(dfs) : dfs[k].idx \in Labels(df)

\* the second iteration has drawn a row of df twice and another row once
C1_Witness ==
    /\ i = 2
    /\ pc = "b_outcome_model"
    /\ Len(dfs) = Len(df)
    /\ \E j, k, m \in 1..Len(dfs) :
          j # k /\ dfs[j].idx = dfs[k].idx /\ dfs[m].idx # dfs[j].idx

\* C2: every row of every resample is, in all its fields, the row of df
\* that carries the same index label
C2_WholeRows ==
    i >= 1 => \A k \in 1..Len(dfs) :
                 \E j \in 1..Len(df) : dfs[k] = df[j]

\* a resample that holds two rows of df which differ in treatment, covariate
\* and outcome
C2_Witness ==
    /\ pc = "b_outcome_model"
    /\ \E j, k \in 1..Len(dfs) :
          /\ dfs[j].qsmk # dfs[k].qsmk
          /\ dfs[j].sex # dfs[k].sex
          /\ dfs[j].wt82_71 # dfs[k].wt82_71

\* C3: after each iteration the last replicate is the all-treated minus the
\* all-untreated standardized mean of the one model fitted to that
\* iteration's resample; the estimator holds that resample and that model,
\* and one model has been fitted per iteration (plus the primary one)
C3_ContrastOfOneFit ==
    /\ (pc \in {"b_fit_all", "b_fit_none", "append"} \/ (pc = "loop" /\ i >= 1))
          => /\ tfgf.gf = dfs
             /\ tfgf.model = Fit(dfs)
             /\ fits = i + 1
    /\ (pc = "append")
          => /\ rall_b = StdMean(tfgf.model, dfs, "all")
             /\ nall_b = StdMean(tfgf.model, dfs, "none")
    /\ (pc = "loop" /\ i >= 1)
          => /\ Len(ests) = i
             /\ ests[i] = Contrast(dfs)

\* an iteration has appended a contrast whose two means differ
C3_Witness ==
    /\ pc = "loop"
    /\ i >= 1
    /\ Len(ests) = i
    /\ ests[i] = QSub(rall_b, nall_b)
    /\ rall_b # nall_b

\* the states inside the body of the bootstrap loop
InBody == pc \in {"b_outcome_model", "b_fit_all", "b_fit_none", "append"}

\* the states after the bootstrap loop
AfterLoop == pc \in {"lcl", "ucl", "print", "done"}

\* C4: the bootstrap driver, once started, runs to the end; one contrast is
\* appended per iteration, and the standard deviation and the limits exist
\* only when all B contrasts are collected
C4_CollectsAllThenInterval ==
    /\ [](/\ (pc = "loop" => Len(ests) = i)
          /\ (InBody => Len(ests) = i - 1)
          /\ (AfterLoop => (Len(ests) = B /\ i = B))
          /\ ((se # NoStd \/ lcl # NoWald \/ ucl # NoWald) => Len(ests) = B))
    /\ ((pc = "loop") ~> (pc = "done"))

\* the run has ended with B replicates and an interval
C4_Witness ==
    /\ pc = "done"
    /\ Len(ests) = B
    /\ se # NoStd
    /\ lcl # NoWald
    /\ ucl # NoWald

\* the population variance of x as the mean of the squares minus the square
\* of the mean
PopVar(x) ==
    LET sq == [k \in 1..Len(x) |-> QMul(x[k], x[k])]
    IN  QSub(Mean(sq), QMul(Mean(x), Mean(x)))

\* c + k * sqrt(r) >= 0, for r >= 0
NonNeg(c, k, r) ==
    LET zero == QInt(0)
        c2   == QMul(c, c)
        k2r  == QMul(QMul(k, k), r)
    IN  \/ QLe(zero, c) /\ QLe(zero, k)
        \/ QLe(zero, c) /\ QLe(c2, k2r) /\ QLe(k2r, c2)
        \/ QLe(zero, c) /\ ~QLe(zero, k) /\ QLe(k2r, c2)
        \/ ~QLe(zero, c) /\ QLe(zero, k) /\ QLe(c2, k2r)

\* C5: the limits are point - 1.96*sd and point + 1.96*sd with point the
\* full-sample contrast rall - nall and sd the standard deviation of the
\* replicates; so lcl <= point <= ucl, the limits are at the same distance
\* from the point, and they coincide with it when all replicates are equal
C5_WaldAroundPoint ==
    (pc \in {"print", "done"}) =>
        LET point == QSub(rall, nall)
            v     == PopVar(ests)
        IN  /\ lcl = [c |-> point, k |-> Q(0 - 196, 100), rad |-> v]
            /\ ucl = [c |-> point, k |-> Q(196, 100), rad |-> v]
            /\ QLe(QInt(0), v)
            /\ NonNeg(QSub(point, lcl.c), QNeg(lcl.k), lcl.rad)
            /\ NonNeg(QSub(ucl.c, point), ucl.k, ucl.rad)
            /\ QSub(point, lcl.c) = QSub(ucl.c, point)
            /\ QNeg(lcl.k) = ucl.k
            /\ (\A j, k \in 1..Len(ests) : ests[j] = ests[k]) => v = QInt(0)
            /\ (pc = "done") => out = [point |-> point, lcl |-> lcl, ucl |-> ucl]

\* an interval of positive width whose centre is not the mean of the
\* replicates has been reported
C5_Witness ==
    /\ pc = "done"
    /\ se.rad # QInt(0)
    /\ Mean(ests) # QSub(rall, nall)
    /\ out.point = QSub(rall, nall)

ArithMean(b, t, a) ==
    QDiv(QSum([k \in 1..Len(t) |-> predict(b, [t[k] EXCEPT !.qsmk = Cell(a)])]),
         QInt(Len(t)))

\* the units of the file with complete treatment and covariate data
PredictableUnits ==
    SelectSeq(read_csv(csv), LAMBDA r : ~isnull(r.qsmk) /\ ~isnull(r.sex))

\* the units of the file with complete treatment, covariate and weight data
KeptUnits ==
    SelectSeq(read_csv(csv),
              LAMBDA r : ~isnull(r.qsmk) /\ ~isnull(r.sex) /\ ~isnull(r.wt82))

\* C10 as stated: the primary marginal outcomes are means over all the units
\* with complete treatment and covariate data, those with a missing outcome
\* included
C10_AllPredictableUnits ==
    /\ (pc = "fit_none") => rall = ArithMean(tfgf.model, PredictableUnits, 1)
    /\ (pc = "loop" /\ i = 0) => nall = ArithMean(tfgf.model, PredictableUnits, 0)

\* C10 amended: the primary marginal outcomes are arithmetic means over the
\* units that are left after the dropna of the data preparation; a unit with
\* a missing wt82 (so a missing outcome) does not contribute
C10_KeptUnitsOnly ==
    /\ (pc = "fit_none") => rall = ArithMean(tfgf.model, KeptUnits, 1)
    /\ (pc = "loop" /\ i = 0) => nall = ArithMean(tfgf.model, KeptUnits, 0)

\* the primary all-treated mean has been read for a file with a unit that
\* lacks only the weight and whose prediction would have changed the mean
C10_Witness ==
    /\ pc = "fit_none"
    /\ rall # None
    /\ Len(KeptUnits) < Len(PredictableUnits)
    /\ rall # ArithMean(tfgf.model, PredictableUnits, 1)

\* C11: the outcome model has no term that mixes the treatment with a
\* covariate, so the all-treated mean minus the all-untreated mean is the
\* fitted coefficient of qsmk, for the full sample and for every resample,
\* whatever the rows of the table are
C11_ContrastIsCoefficient ==
    /\ (pc = "loop" /\ i = 0) => QSub(rall, nall) = tfgf.model[2]
    /\ (pc = "append") => QSub(rall_b, nall_b) = tfgf.model[2]

\* the primary contrast has been read on a table whose records differ in the
\* covariate and in the treatment, with a non-zero coefficient of qsmk
C11_Witness ==
    /\ pc = "loop"
    /\ i = 0
    /\ tfgf.model[2] # QInt(0)
    /\ QSub(rall, nall) = tfgf.model[2]
    /\ \E j, k \in 1..Len(df) : df[j].sex # df[k].sex /\ df[j].qsmk # df[k].qsmk

\* the states in which the estimator holds a fitted outcome model
Fitted == pc \in {"fit_all", "rall", "fit_none", "nall",
                  "b_fit_all", "b_fit_none", "append"}

\* the j-th normal equation of model b on table t: the residuals of the
\* records of t are orthogonal to the j-th column of the design
NormalEquation(b, t, j) ==
    QSum([m \in 1..Len(t) |->
            QMul(QInt(DesignRow(t[m])[j]),
                 QSub(QInt(t[m].wt82_71.v), predict(b, t[m])))]) = QInt(0)

RankDeficient(t) == Cardinality(DesignCells(CompleteCases(t))) < 3

PrimaryFails == CompleteCases(dropna(read_csv(csv), DropSubset)) = <<>>

\* C15: when the primary fit fails the run ends there: the fit was called
\* once, and there is no fitted model, no marginal outcome, no replicate,
\* no standard deviation, no limit and no report
C15_PrimaryFailureIsFatal ==
    (PrimaryFails /\ pc \notin {"read_csv", "dropna", "construct", "outcome_model"})
        => /\ pc = "raised"
           /\ fits = 1
           /\ i = 0
           /\ tfgf.model = <<>>
           /\ tfgf.marginal_outcome = None
           /\ rall = None
           /\ nall = None
           /\ ests = <<>>
           /\ se = NoStd
           /\ lcl = NoWald
           /\ ucl = NoWald
           /\ out = NoOut

\* the primary fit has raised on a file all of whose records miss a value
C15_Witness ==
    /\ pc = "raised"
    /\ PrimaryFails
    /\ Len(csv) = NRows
    /\ fits = 1
    /\ tfgf.gf = df

C17_ReportStatesCount ==
    (pc = "done") => ("count" \in DOMAIN out /\ out.count = Len(ests))

\* C17 amended: the report carries the point estimate and the two limits
\* and nothing else; all B resamples have contributed, and the standard
\* deviation behind the limits is taken over the B replicates
C17_ReportWithoutCount ==
    (pc = "done")
        => /\ DOMAIN out = {"point", "lcl", "ucl"}
           /\ Len(ests) = B
           /\ PopVar(ests) = se.rad
           /\ out.lcl.rad = se.rad
           /\ out.ucl.rad = se.rad

\* a report has been printed from replicates that are not all equal
C17_Witness ==
    /\ pc = "done"
    /\ Len(ests) = B
    /\ ests[1] # ests[B]
    /\ out.lcl # out.ucl

FromLoop == pc = "loop" \/ InBody \/ AfterLoop

\* C19: from the start of the loop on, df is the table the data preparation
\* left: the same records with the same labels and values in the same order
C19_TableReadOnly ==
    FromLoop => df = dropna(read_csv(csv), DropSubset)

\* the run has ended, and its last resample differs from df
C19_Witness ==
    /\ pc = "done"
    /\ i = B
    /\ Len(df) >= 2
    /\ dfs # df
    /\ df = dropna(read_csv(csv), DropSubset)

\* C20: iteration i puts its contrast at position i of the replicate
\* sequence, and no step moves or changes a replicate collected before
C20_CollectedInIterationOrder ==
    [][/\ (pc = "append") => (Len(ests') = i /\ ests'[i] = Contrast(dfs))
       /\ \A k \in 1..Len(ests) : Len(ests') >= k /\ ests'[k] = ests[k]]_vars

\* all B replicates are collected and the first and the last differ
C20_Witness ==
    /\ pc = "loop"
    /\ i = B
    /\ Len(ests) = B
    /\ ests[1] # ests[B]

\* C29: the estimator has one field marginal_outcome, and each fit call
\* overwrites it with the mean under its plan; rall is read while the field
\* holds the all-treated mean and nall while it holds the all-untreated mean
\* of the same fitted model, so that rall is the all-treated and nall the
\* all-untreated mean of the model fitted to df, at the start of the loop and
\* at the end of the run, and in an iteration rall_b and nall_b are those of
\* the iteration's model on its resample; when the two means of a model
\* differ, neither name holds the other plan's mean
C29_EachNameItsOwnPlan ==
    /\ (pc = "rall")
          => tfgf.marginal_outcome = StdMean(tfgf.model, tfgf.gf, "all")
    /\ (pc = "nall")
          => /\ tfgf.marginal_outcome = StdMean(tfgf.model, tfgf.gf, "none")
             /\ rall = StdMean(tfgf.model, tfgf.gf, "all")
    /\ (pc = "loop" /\ i = 0)
          => /\ tfgf.gf = df
             /\ rall = StdMean(tfgf.model, df, "all")
             /\ nall = StdMean(tfgf.model, df, "none")
    /\ (pc = "done")
          => LET b    == Fit(df)
                 all  == StdMean(b, df, "all")
                 none == StdMean(b, df, "none")
             IN  /\ rall = all
                 /\ nall = none
                 /\ (all # none => (rall # none /\ nall # all))
    /\ (pc = "b_fit_none")
          => /\ tfgf.marginal_outcome = rall_b
             /\ rall_b = StdMean(tfgf.model, dfs, "all")
    /\ (pc = "append")
          => /\ tfgf.marginal_outcome = nall_b
             /\ nall_b = StdMean(tfgf.model, dfs, "none")
             /\ rall_b = StdMean(tfgf.model, dfs, "all")
             /\ (rall_b # nall_b => tfgf.marginal_outcome # rall_b)

\* an iteration has read both means, they differ, the field holds the one
\* read last, and the two primary means differ as well
C29_Witness ==
    /\ pc = "append"
    /\ rall # nall
    /\ rall_b # nall_b
    /\ tfgf.marginal_outcome = nall_b
    /\ rall_b # rall

\* C30: an iteration binds tfgf to a new estimator of its resample; no step
\* from the start of the loop on writes rall or nall, so that they stay the
\* means of the model fitted to df, and the reported point estimate is the
\* contrast of df whatever the resamples were
C30_LoopLeavesPrimaryResults ==
    /\ [][/\ (pc = "loop" /\ pc' = "b_outcome_model")
                => tfgf' = TimeFixedGFormula(dfs')
          /\ FromLoop => (rall' = rall /\ nall' = nall)]_vars
    /\ [](AfterLoop => QSub(rall, nall) = Contrast(df))
    /\ [](pc = "done" => out.point = Contrast(dropna(read_csv(csv), DropSubset)))

\* the run has ended after B iterations on resamples that differ from df,
\* with a replicate that differs from the reported point estimate
C30_Witness ==
    /\ pc = "done"
    /\ i = B
    /\ dfs # df
    /\ out.point = QSub(rall, nall)
    /\ \E k \in 1..Len(ests) : ests[k] # out.point

\* the resample iteration k draws from table t when the loop is entered with
\* the generator in state g
Resample(t, g, k) ==
    sample(t, shape0(t), choice(advance(g, (k - 1) * shape0(t)), Len(t), shape0(t)))

\* the replicates of B iterations on table t entered with the generator in
\* state g
Replicates(t, g) == [k \in 1..B |-> Contrast(Resample(t, g, k))]

WithOutcomes ==
    {k \in 1..Len(runs) :
        ~runs[k].raised /\ runs[k].cell \in {"binary", "normal", "simulate_data"}}

\* C23: in every simulated table with potential outcomes (the binary cell,
\* the normal cell, simulate_data) and in every row, A is 0 or 1, Y is Y1
\* when A = 1 and Y is Y0 when A = 0; the treatment of the two first cells
\* is 0 or 1 as well
C23_CounterfactualConsistency ==
    /\ \A k \in 1..Len(runs) :
          (~runs[k].raised)
              => \A j \in 1..Len(runs[k].df.A) :
                    runs[k].df.A[j] \in {QInt(0), QInt(1)}
    /\ \A k \in WithOutcomes :
          LET t == runs[k].df
          IN  \A j \in 1..Len(t.A) :
                 /\ (t.A[j] = QInt(1)) => t.Y[j] = t.Y1[j]
                 /\ (t.A[j] = QInt(0)) => t.Y[j] = t.Y0[j]

\* the session has built a binary-outcome table and a normal-outcome table,
\* each with a row whose potential outcomes differ; one such row is treated
\* and one is untreated
C23_Witness ==
    \E b, c \in WithOutcomes :
       /\ runs[b].cell = "binary"
       /\ runs[c].cell \in {"normal", "simulate_data"}
       /\ \E j \in 1..Len(runs[b].df.A) : runs[b].df.Y1[j] # runs[b].df.Y0[j]
       /\ \E j \in 1..Len(runs[c].df.A) : runs[c].df.Y1[j] # runs[c].df.Y0[j]
       /\ \E x \in {b, c} : \E j \in 1..Len(runs[x].df.A) :
              runs[x].df.A[j] = QInt(1) /\ runs[x].df.Y1[j] # runs[x].df.Y0[j]
       /\ \E x \in {b, c} : \E j \in 1..Len(runs[x].df.A) :
              runs[x].df.A[j] = QInt(0) /\ runs[x].df.Y1[j] # runs[x].df.Y0[j]

\* the argument is a positive integer
Positive(a) == a.type = "int" /\ QLe(QInt(1), a.v)

\* C24: simulate_data raises, before any draw, for every argument that is
\* not a positive integer (0, a negative number, a number that is no int);
\* for a positive integer n it does not raise and returns n rows with
\* exactly the columns Y, A, W, L
C24_RaisesUnlessPositiveInteger ==
    \A k \in 1..Len(runs) :
       (runs[k].cell = "simulate_data")
          => IF Positive(runs[k].arg)
             THEN /\ ~runs[k].raised
                  /\ DOMAIN runs[k].ret = {"Y", "A", "W", "L"}
                  /\ \A c \in DOMAIN runs[k].ret :
                        Len(runs[k].ret[c]) = runs[k].arg.v.n
             ELSE /\ runs[k].raised
                  /\ runs[k].drawn = 0

\* simulate_data(0) has returned a table without rows
C24_Witness ==
    \E k \in 1..Len(runs) :
       /\ runs[k].cell = "simulate_data"
       /\ runs[k].arg = IntArg(0)
       /\ ~runs[k].raised
       /\ DOMAIN runs[k].ret = {"Y", "A", "W", "L"}
       /\ runs[k].ret.Y = <<>>

\* the runs of the session log that are runs of a seeded cell
SeededRuns == {k \in 1..Len(runs) : runs[k].cell \in {"W_A", "W_L_A", "binary"}}

\* C25: a seeded cell builds the same table every time it runs, whatever ran
\* before it; the three seeded cells build the same column W, and the second
\* and the third the same column L
C25_SeedReplicates ==
    \A j, k \in SeededRuns :
       /\ (runs[j].cell = runs[k].cell) => runs[j].df = runs[k].df
       /\ runs[j].df.W = runs[k].df.W
       /\ (runs[j].cell # "W_A" /\ runs[k].cell # "W_A")
             => runs[j].df.L = runs[k].df.L

\* a seeded cell has run, then the unseeded cell has drawn another W from the
\* generator as it was left, then a different seeded cell has run
C25_Witness ==
    /\ Len(runs) = 3
    /\ runs[1].cell = "W_L_A"
    /\ runs[2].cell = "normal"
    /\ runs[3].cell = "binary"
    /\ runs[2].df.W # runs[1].df.W
    /\ runs[3].df.W = runs[1].df.W

\* the count a crosstab shows for the labels a and d, 0 when it has no such
\* cell
CountAt(x, a, d) ==
    IF a \in x.index /\ d \in x.columns THEN x.count[<<a, d>>] ELSE 0

\* the sum of all cells of a crosstab
TabSum(x) ==
    LET S[q \in SUBSET (x.index \X x.columns)] ==
            IF q = {} THEN 0
            ELSE LET e == CHOOSE e \in q : TRUE
                 IN  x.count[e] + S[q \ {e}]
    IN  S[x.index \X x.columns]

\* the data columns of a record of the table
DataFields(r) == (DOMAIN r) \ {"idx"}

\* C22: no cell of the table holds -99999 before the fill; the fill puts
\* -99999 into exactly the cells that were missing and leaves the others as
\* they were, and the crosstab printed after it shows in its column -99999,
\* for every value of art, the number of rows whose dead was missing
C22_SentinelMarksMissing ==
    /\ [](pc # "done"
             => \A k \in 1..Len(df) : \A f \in DataFields(df[k]) :
                   df[k][f] # Cell(-99999))
    /\ [][pc = "fillna"
             => /\ Len(df') = Len(df)
                /\ \A k \in 1..Len(df) :
                      /\ DOMAIN df'[k] = DOMAIN df[k]
                      /\ df'[k].idx = df[k].idx
                      /\ \A f \in DataFields(df[k]) :
                            /\ (df'[k][f] = Cell(-99999)) <=> isnull(df[k][f])
                            /\ (~isnull(df[k][f])) => df'[k][f] = df[k][f]
                /\ \A a \in {0, 1, -99999} :
                      CountAt(printed'.xtab_filled, a, -99999)
                         = Cardinality({k \in 1..Len(df) :
                              /\ isnull(df[k].dead)
                              /\ df[k].art = (IF a = -99999 THEN NaN ELSE Cell(a))})
            ]_vars

\* the table has been filled: a cell holds -99999, another cell of the same
\* column does not, and the crosstab has a count in its column -99999
C22_Witness ==
    /\ pc = "done"
    /\ \E j, k \in 1..Len(df) :
          df[j].dead = Cell(-99999) /\ df[k].dead # Cell(-99999)
    /\ \E a \in printed.xtab_filled.index :
          CountAt(printed.xtab_filled, a, -99999) > 0
    /\ \E a \in printed.xtab_filled.index :
          CountAt(printed.xtab_filled, a, 1) > 0

\* C26: once both recodes are made, age2_numpy and age2_pandas are equal in
\* every row: 50 where age0 > 50, age0 where age0 <= 50, and missing where
\* age0 is missing, so that neither column exceeds 50
C26_RecodesAgree ==
    (pc \in {"crosstab_dropna", "fillna"})
       => \A k \in 1..Len(df) :
             /\ df[k].age2_numpy = df[k].age2_pandas
             /\ isnull(df[k].age0)
                   => (isnull(df[k].age2_numpy) /\ isnull(df[k].age2_pandas))
             /\ (~isnull(df[k].age0) /\ df[k].age0.v > 50)
                   => (df[k].age2_numpy = Cell(50) /\ df[k].age2_pandas = Cell(50))
             /\ (~isnull(df[k].age0) /\ df[k].age0.v <= 50)
                   => (df[k].age2_numpy = df[k].age0
                       /\ df[k].age2_pandas = df[k].age0)
             /\ (~isnull(df[k].age2_numpy)) => df[k].age2_numpy.v <= 50
             /\ (~isnull(df[k].age2_pandas)) => df[k].age2_pandas.v <= 50

\* both recodes are made on a table with an age above 50, the age 50 and a
\* missing age
C26_Witness ==
    /\ pc = "fillna"
    /\ \E j, k, m \in 1..Len(df) :
          /\ df[j].age0 = Cell(51) /\ df[j].age2_pandas = Cell(50)
          /\ df[k].age0 = Cell(50) /\ df[k].age2_pandas = Cell(50)
          /\ isnull(df[m].age0) /\ isnull(df[m].age2_numpy)

\* the row of the table is one with art = 1 and age0 > 48, neither missing
Wanted(r) ==
    /\ ~isnull(r.art) /\ r.art.v = 1
    /\ ~isnull(r.age0) /\ r.age0.v > 48

\* C27: the selection holds exactly the rows of df with art = 1 and
\* age0 > 48, each with the fields it has in df, in the order of df; a row
\* whose art or age0 is missing is not selected; the one-condition selection
\* holds exactly the rows with art = 1
C27_SelectsExactlyMatchingRows ==
    (pc = "np_where")
       => /\ \A k \in 1..Len(df) :
                (\E j \in 1..Len(printed.sel) : printed.sel[j] = df[k])
                   <=> Wanted(df[k])
          /\ \A j \in 1..Len(printed.sel) :
                \E k \in 1..Len(df) : printed.sel[j] = df[k]
          /\ \A j, k \in 1..Len(printed.sel) :
                (j < k) => printed.sel[j].idx < printed.sel[k].idx
          /\ \A k \in 1..Len(df) :
                (isnull(df[k].art) \/ isnull(df[k].age0))
                   => \A j \in 1..Len(printed.sel) : printed.sel[j].idx # df[k].idx
          /\ \A k \in 1..Len(df) :
                (\E j \in 1..Len(printed.art1) : printed.art1[j] = df[k])
                   <=> (~isnull(df[k].art) /\ df[k].art.v = 1)

\* two rows are selected, and a row with a missing art and an age above 48
\* is not
C27_Witness ==
    /\ pc = "np_where"
    /\ Len(printed.sel) = 2
    /\ \E k \in 1..Len(df) :
          /\ isnull(df[k].art)
          /\ ~isnull(df[k].age0) /\ df[k].age0.v > 48

\* the rows of the table with neither art nor dead missing
BothKnown(t) == {k \in 1..Len(t) : ~isnull(t[k].art) /\ ~isnull(t[k].dead)}

\* C28: the crosstab of art by dead, with or without dropna=False, sums to
\* the number of rows with neither value missing; the crosstab printed after
\* the fill sums to the number of rows, and its cells outside the row and
\* the column -99999 show the counts of the crosstab before the fill
C28_CrosstabSkipsMissing ==
    /\ [](pc \in {"loc_art", "loc", "np_where", "df_loc", "crosstab_dropna", "fillna"}
             => TabSum(printed.xtab) = Cardinality(BothKnown(df)))
    /\ [](pc = "fillna"
             => /\ TabSum(printed.xtab_dropna) = Cardinality(BothKnown(df))
                /\ -99999 \notin printed.xtab_dropna.index
                /\ -99999 \notin printed.xtab_dropna.columns)
    /\ [][pc = "fillna"
             => /\ TabSum(printed'.xtab_filled) = Len(df)
                /\ \A a, d \in {0, 1} :
                      /\ CountAt(printed'.xtab_filled, a, d)
                            = CountAt(printed.xtab, a, d)
                      /\ CountAt(printed'.xtab_filled, a, d)
                            = CountAt(printed.xtab_dropna, a, d)
            ]_vars

\* the run has ended on a table with a missing value: the crosstabs before
\* the fill count fewer rows than the table has, the one after it all rows
C28_Witness ==
    /\ pc = "done"
    /\ TabSum(printed.xtab) >= 1
    /\ TabSum(printed.xtab_dropna) < Len(df)
    /\ TabSum(printed.xtab_filled) = Len(df)

====
